---- MODULE Spec2Model ----
(***************************************************************************)
(* Model of src/src/components/RFIDScanner.tsx: the React component that   *)
(* owns a Web Serial connection to an RFID reader, runs a read loop on it  *)
(* and hands scanned or manually entered identifiers to its caller.        *)
(*                                                                         *)
(* Text is a sequence of characters (one-character strings; the Unicode    *)
(* replacement character is the token "FFFD").  A chunk is a sequence of   *)
(* byte values.  A port is a number, 0 for null.  A reader is written as   *)
(* the state of its stream: the reader of the readable stream of port p,   *)
(* or a reader whose stream is closed or errored; when a stream ends,      *)
(* every stored reader of it is rewritten.                                 *)
(***************************************************************************)
EXTENDS Integers, Sequences, FiniteSets, Bags, TLC

(***************************************************************************)
(* Bounds of the model.                                                    *)
(***************************************************************************)
NumPorts == 2
MaxDisc == 1
MaxRequesting == 2

(***************************************************************************)
(* Program constants.                                                      *)
(***************************************************************************)
MinChunkLen == 8     \* cleanData.length >= 8
PatternMin == 8      \* {8,16} of rfidPattern
PatternMax == 16
InputMaxLength == 16 \* maxLength of the manual input element

Ports == 1..NumPorts

(***************************************************************************)
(* Characters and strings.                                                 *)
(***************************************************************************)
Digits == {"0", "1", "2", "3", "4", "5", "6", "7", "8", "9"}
HexUpperLetters == {"A", "B", "C", "D", "E", "F"}
HexLowerLetters == {"a", "b", "c", "d", "e", "f"}

\* the character class [A-Fa-f0-9] of lines 219 and 220
IsHexChar(c) == c \in Digits \cup HexUpperLetters \cup HexLowerLetters

\* the character class [0-9A-F] of the canonical identifier format
IsCanonicalChar(c) == c \in Digits \cup HexUpperLetters

\* white space removed by String.prototype.trim
IsWhiteSpace(c) == c \in {" ", "\t", "\r", "\n"}

\* String.prototype.toUpperCase on one character
UpperChar(c) ==
    CASE c = "a" -> "A" [] c = "b" -> "B" [] c = "c" -> "C"
      [] c = "d" -> "D" [] c = "e" -> "E" [] c = "f" -> "F"
      [] c = "z" -> "Z" [] c = "x" -> "X"
      [] OTHER -> c

ToUpperCase(s) == [i \in 1..Len(s) |-> UpperChar(s[i])]

RECURSIVE TrimStart(_)
TrimStart(s) ==
    IF s # <<>> /\ IsWhiteSpace(Head(s)) THEN TrimStart(Tail(s)) ELSE s

RECURSIVE TrimEnd(_)
TrimEnd(s) ==
    IF s # <<>> /\ IsWhiteSpace(s[Len(s)])
    THEN TrimEnd(SubSeq(s, 1, Len(s) - 1))
    ELSE s

\* String.prototype.trim
Trim(s) == TrimEnd(TrimStart(s))

NotLineBreak(c) == c \notin {"\r", "\n"}

\* data.trim().replace(/[\r\n]/g, '')
CleanData(data) == SelectSeq(Trim(data), NotLineBreak)

\* a handleManualInput that tests the text as entered
CleanRFIDKept(text) == text

\* manualRFID.replace(/[^A-Fa-f0-9]/g, '')
CleanRFID(text) == SelectSeq(text, IsHexChar)

\* /^[A-Fa-f0-9]{8,16}$/.test(s)
RfidPatternTest(s) ==
    /\ Len(s) >= PatternMin
    /\ Len(s) <= PatternMax
    /\ \A i \in 1..Len(s) : IsHexChar(s[i])

\* Date.now() rendered in a template string: thirteen decimal digits
Timestamp == <<"1", "7", "9", "3", "7", "0", "6", "0", "0", "0", "1", "2", "3">>

\* `RFID:${uid}:${timestamp}`
FormatRFID(uid) == <<"R", "F", "I", "D", ":">> \o uid \o <<":">> \o Timestamp

\* byte -> character of TextDecoder (UTF-8) on the bytes the model uses;
\* a byte that is no valid UTF-8 decodes to U+FFFD
DecodeByte(b) ==
    CASE b = 10 -> "\n" [] b = 13 -> "\r" [] b = 32 -> " " [] b = 45 -> "-"
      [] b = 48 -> "0" [] b = 49 -> "1" [] b = 50 -> "2" [] b = 52 -> "4"
      [] b = 53 -> "5" [] b = 57 -> "9" [] b = 65 -> "A" [] b = 69 -> "E"
      [] b = 97 -> "a" [] b = 101 -> "e" [] b = 102 -> "f" [] b = 122 -> "z"
      [] OTHER -> "FFFD"

\* new TextDecoder().decode(value)
Decode(value) == [i \in 1..Len(value) |-> DecodeByte(value[i])]

(***************************************************************************)
(* Inputs: chunks the transport delivers and texts the operator types.     *)
(***************************************************************************)
\* "045a2e92\r\n"
ChunkCard == <<48, 52, 53, 97, 50, 101, 57, 50, 13, 10>>
\* "12"
ChunkShort == <<49, 50>>
\* "zz-04-5A-2E-92"
ChunkNoise == <<122, 122, 45, 48, 52, 45, 53, 65, 45, 50, 69, 45, 57, 50>>
\* seventeen hex digits followed by a line feed
ChunkLong == <<48, 52, 53, 97, 50, 101, 57, 50, 102, 49, 48, 52, 53, 97, 50, 101, 57, 10>>
\* eight bytes that are not valid UTF-8
ChunkBinary == <<255, 255, 255, 255, 255, 255, 255, 255>>

\* sixteen hex digits followed by a line feed
ChunkMax == <<48, 52, 53, 97, 50, 101, 57, 50, 102, 49, 48, 52, 53, 97, 50, 101, 10>>

Chunks == {ChunkCard, ChunkShort, ChunkNoise, ChunkLong, ChunkBinary, ChunkMax}

\* the chunks delivered while the connection is followed through its life
LifecycleChunks == {ChunkCard, ChunkShort}

\* what the operator can have in the input element: at most maxLength
\* characters, no line breaks
TypedTexts ==
    { <<>>,
      <<" ", " ">>,
      <<"1", "2">>,
      <<"0", "4", "5", "a", "2", "e", "9", "2", "f", "1">>,
      <<"z", "z", "-", "0", "4", "-", "5", "A", "-", "2", "E", "-", "9", "2">>,
      <<"0", "4", "5", "a", "2", "e", "9", "2", "f", "1", "0", "4", "5", "a", "2", "e">> }

(***************************************************************************)
(* State.                                                                  *)
(***************************************************************************)
VARIABLES
    isActive,          \* prop isActive
    hasSerial,         \* 'serial' in navigator
    rfidReaderStatus,  \* useState: "ready" | "scanning" | "error" | "offline"
    serialPort,        \* useState: port, 0 for null
    reader,            \* useState: reader
    manualRFID,        \* useState: text of the manual input
    lastScanTime,      \* useState: TRUE when a Date is stored, FALSE for null
    openPorts,         \* ports of the host that are open
    reading,           \* ports whose stream has a loop at `await reader.read()`
    requesting,        \* connectRFIDReader calls awaiting requestPort
    opening,           \* ports a connectRFIDReader call awaits open() on
    disc,              \* disconnectRFIDReader calls suspended at an await
    cleanup,           \* reader and port closed over by the effect's cleanup
    out                \* what the last step handed out

vars == <<isActive, hasSerial, rfidReaderStatus, serialPort, reader, manualRFID,
          lastScanTime, openPorts, reading, requesting, opening, disc, cleanup,
          out>>

comp == <<rfidReaderStatus, serialPort, reader, manualRFID, lastScanTime>>

\* readers
NoReader == [state |-> "null", port |-> 0]

ReaderOf(p) == [state |-> "readable", port |-> p]

Ended(how) == [state |-> how, port |-> 0]

\* reader r once the streams of the ports ps have ended
Retire(r, ps, how) ==
    IF r.state = "readable" /\ r.port \in ps THEN Ended(how) ELSE r

NoClosure == [reader |-> NoReader, port |-> 0]

\* the calls of onRFIDDetected, the toast title and the console.error text
\* of a step that hands out nothing
Quiet == [ev |-> <<>>, toast |-> "", log |-> ""]

Toast(title) == [Quiet EXCEPT !.toast = title]

Logged(text) == [Quiet EXCEPT !.log = text]

\* onRFIDDetected(rfidData) followed by a toast
Detected(rfidData, title) == [Quiet EXCEPT !.ev = <<rfidData>>, !.toast = title]

Init ==
    /\ isActive = FALSE
    /\ hasSerial \in BOOLEAN
    /\ rfidReaderStatus = "offline"
    /\ serialPort = 0
    /\ reader = NoReader
    /\ manualRFID = <<>>
    /\ lastScanTime = FALSE
    /\ openPorts = {}
    /\ reading = {}
    /\ requesting = 0
    /\ opening = {}
    /\ disc = EmptyBag
    /\ cleanup = NoClosure
    /\ out = Quiet

(***************************************************************************)
(* initializeRFIDReader                                                    *)
(***************************************************************************)
InitializeStatus(capable) == IF capable THEN "ready" ELSE "error"

InitializeToast(capable) ==
    IF capable THEN "RFID Reader Ready" ELSE "RFID Reader Error"

(***************************************************************************)
(* disconnectRFIDReader, called with the reader and the port its closure   *)
(* holds.  An await on a promise that is already settled (cancel() on a    *)
(* stream that is closed or errored, close() on a port that is not open)   *)
(* continues within the step of the call, after the code that called it;   *)
(* any other await suspends the call until the transport answers.          *)
(***************************************************************************)
\* the reader and the port a handler of the current render closes over
Closure == [reader |-> reader, port |-> serialPort]

\* reader.cancel() of the call: the ports whose readable stream it closes,
\* so that the pending read() resolves with done and the loop leaves at
\* `if (done) break`
Cancelled(c) == IF c.reader.state = "readable" THEN {c.reader.port} ELSE {}

\* `await reader.cancel()` resolves at once: the stream was closed already
CancelAtOnce(c) == c.reader.state = "closed"

\* where the call stands when the step of the call ends: suspended at
\* "cancel" or at "close", "thrown" into its catch, or "done"
CallStage(c, open) ==
    IF c.reader.state = "readable" THEN "cancel"
    ELSE IF c.reader.state = "errored" THEN "thrown"
    ELSE IF c.port # 0 THEN (IF c.port \in open THEN "close" ELSE "thrown")
    ELSE "done"

\* the suspended call, if the call is suspended
DisconnectSuspended(kind, c, from, open) ==
    IF CallStage(c, open) \in {"cancel", "close"}
    THEN SetToBag({[kind |-> kind, port |-> c.port, pc |-> CallStage(c, open),
                    from |-> from]})
    ELSE EmptyBag

\* setReader(null) of a call whose cancel resolved at once
DisconnectReader(c, r) == IF CancelAtOnce(c) THEN NoReader ELSE r

\* a disconnectRFIDReader that leaves the status as it finds it
DisconnectStatusKept(c, open, status) == status

\* setRfidReaderStatus('offline') of a call that ran to its end
DisconnectStatus(c, open, status) ==
    IF CallStage(c, open) = "done" THEN "offline" ELSE status

\* console.error of the catch
DisconnectLog(stage) ==
    IF stage = "thrown" THEN "Error disconnecting RFID reader:" ELSE ""

Remove(calls, d) == calls (-) SetToBag({d})

\* the ports a call of calls is closing
Closing(calls) == {d.port : d \in {e \in BagToSet(calls) : e.pc = "close"}}

\* the ports close() can be awaited on: close() rejects at once on a port
\* that is closed or being closed
Closable(calls) == openPorts \ Closing(calls)

\* the Disconnect Reader button, rendered while a port is stored
DisconnectClick ==
    /\ isActive
    /\ serialPort # 0
    /\ BagCardinality(disc) < MaxDisc
    /\ disc' = disc (+) DisconnectSuspended("button", Closure, rfidReaderStatus,
                                            Closable(disc))
    /\ reading' = reading \ Cancelled(Closure)
    /\ reader' = DisconnectReader(Closure, Retire(reader, Cancelled(Closure), "closed"))
    /\ cleanup' = [cleanup EXCEPT !.reader = Retire(@, Cancelled(Closure), "closed")]
    /\ rfidReaderStatus' = DisconnectStatus(Closure, Closable(disc), rfidReaderStatus)
    /\ out' = Logged(DisconnectLog(CallStage(Closure, Closable(disc))))
    /\ UNCHANGED <<isActive, hasSerial, serialPort, manualRFID, lastScanTime,
                   openPorts, requesting, opening>>

\* the closure of this render as the call of the effect finds it, after the
\* cleanup's call cancelled its reader
AfterCleanup == [Closure EXCEPT !.reader = Retire(@, Cancelled(cleanup), "closed")]

\* the call the cleanup of the previous effect makes, if it is suspended
CleanupCall == DisconnectSuspended("cleanup", cleanup, "", Closable(disc))

\* where the call the effect makes on deactivation stands when the step ends
EffectStage == CallStage(AfterCleanup, Closable(disc (+) CleanupCall))

\* isActive becomes false: the cleanup of the previous effect runs
\* disconnectRFIDReader of the render that set it up, then the effect runs
\* disconnectRFIDReader of this render
Deactivate ==
    /\ isActive
    /\ LET d2 == DisconnectSuspended("deactivate", AfterCleanup, "",
                                     Closable(disc (+) CleanupCall))
           ended == Cancelled(cleanup) \cup Cancelled(AfterCleanup)
       IN /\ BagCardinality(disc (+) CleanupCall (+) d2) <= MaxDisc
          /\ disc' = disc (+) CleanupCall (+) d2
          /\ reading' = reading \ ended
          /\ reader' = DisconnectReader(AfterCleanup,
                           DisconnectReader(cleanup, Retire(reader, ended, "closed")))
          /\ cleanup' = [reader |-> Retire(reader, ended, "closed"), port |-> serialPort]
    /\ rfidReaderStatus' =
           DisconnectStatus(AfterCleanup, Closable(disc (+) CleanupCall),
               DisconnectStatus(cleanup, Closable(disc), rfidReaderStatus))
    /\ out' = Logged(IF CallStage(cleanup, Closable(disc)) = "thrown"
                     THEN DisconnectLog("thrown")
                     ELSE DisconnectLog(EffectStage))
    /\ isActive' = FALSE
    /\ UNCHANGED <<hasSerial, serialPort, manualRFID, lastScanTime,
                   openPorts, requesting, opening>>

\* isActive becomes true: the cleanup of the previous effect runs
\* disconnectRFIDReader, then the effect runs initializeRFIDReader; what
\* the cleanup's call does after an await comes after that
Activate ==
    /\ ~isActive
    /\ BagCardinality(disc (+) CleanupCall) <= MaxDisc
    /\ disc' = disc (+) CleanupCall
    /\ reading' = reading \ Cancelled(cleanup)
    /\ reader' = DisconnectReader(cleanup, Retire(reader, Cancelled(cleanup), "closed"))
    /\ cleanup' = [reader |-> Retire(reader, Cancelled(cleanup), "closed"),
                   port |-> serialPort]
    /\ rfidReaderStatus' =
           IF cleanup = NoClosure
           THEN InitializeStatus(hasSerial)
           ELSE DisconnectStatus(cleanup, Closable(disc), InitializeStatus(hasSerial))
    /\ out' = [Toast(InitializeToast(hasSerial)) EXCEPT
                  !.log = DisconnectLog(CallStage(cleanup, Closable(disc)))]
    /\ isActive' = TRUE
    /\ UNCHANGED <<hasSerial, serialPort, manualRFID, lastScanTime,
                   openPorts, requesting, opening>>

\* the call after its setReader(null): it goes on to the port of its closure
AfterCancel(d) == [reader |-> NoReader, port |-> d.port]

\* `await reader.cancel()` resolves: setReader(null), then the port is
\* closed, or the status is set when the closure holds no port
CancelResolve(d) ==
    /\ d.pc = "cancel"
    /\ reader' = NoReader
    /\ disc' = Remove(disc, d)
                  (+) (IF CallStage(AfterCancel(d), Closable(disc)) = "close"
                       THEN SetToBag({[d EXCEPT !.pc = "close"]})
                       ELSE EmptyBag)
    /\ rfidReaderStatus' = DisconnectStatus(AfterCancel(d), Closable(disc), rfidReaderStatus)
    /\ out' = Logged(DisconnectLog(CallStage(AfterCancel(d), Closable(disc))))
    /\ UNCHANGED <<isActive, hasSerial, serialPort, manualRFID, lastScanTime,
                   openPorts, reading, requesting, opening, cleanup>>

\* `await serialPort.close()` resolves: the port is closed and takes its
\* readable stream with it; setSerialPort(null), 'offline'
CloseResolve(d) ==
    /\ d.pc = "close"
    /\ d.port \in openPorts
    /\ openPorts' = openPorts \ {d.port}
    /\ reading' = reading \ {d.port}
    /\ reader' = Retire(reader, {d.port}, "closed")
    /\ cleanup' = [cleanup EXCEPT !.reader = Retire(@, {d.port}, "closed")]
    /\ serialPort' = 0
    /\ rfidReaderStatus' = "offline"
    /\ disc' = Remove(disc, d)
    /\ out' = Quiet
    /\ UNCHANGED <<isActive, hasSerial, manualRFID, lastScanTime, requesting, opening>>

\* `await serialPort.close()` rejects: the port stays open, the catch logs
\* and the call returns
CloseReject(d) ==
    /\ d.pc = "close"
    /\ disc' = Remove(disc, d)
    /\ out' = Logged(DisconnectLog("thrown"))
    /\ UNCHANGED <<isActive, hasSerial, comp, openPorts, reading, requesting,
                   opening, cleanup>>

(***************************************************************************)
(* connectRFIDReader                                                       *)
(***************************************************************************)
\* a connectRFIDReader that starts no read loop
StartReadingSkipped(loops, p) == loops

\* startReading(reader) on the stream of port p: its loop is suspended at
\* its first `await reader.read()`
StartReading(loops, p) == loops \cup {p}

\* the status connectRFIDReader sets after the open
ConnectedStatus == "scanning"

\* the catch of connectRFIDReader
ConnectFailed ==
    /\ rfidReaderStatus' = "error"
    /\ out' = Toast("Connection Failed")

\* the Connect RFID Reader button, rendered while no port is stored;
\* without navigator.serial the call throws before its first await
ConnectClick ==
    /\ isActive
    /\ serialPort = 0
    /\ IF hasSerial
       THEN /\ requesting < MaxRequesting
            /\ requesting' = requesting + 1
            /\ out' = Quiet
            /\ UNCHANGED rfidReaderStatus
       ELSE /\ ConnectFailed
            /\ UNCHANGED requesting
    /\ UNCHANGED <<isActive, hasSerial, serialPort, reader, manualRFID, lastScanTime,
                   openPorts, reading, opening, disc, cleanup>>

\* requestPort rejects (no port chosen)
RequestPortReject ==
    /\ requesting > 0
    /\ requesting' = requesting - 1
    /\ ConnectFailed
    /\ UNCHANGED <<isActive, hasSerial, serialPort, reader, manualRFID, lastScanTime,
                   openPorts, reading, opening, disc, cleanup>>

\* requestPort resolves with port p and port.open() is called; open()
\* rejects at once on a port that is open or being opened
RequestPortResolve(p) ==
    /\ requesting > 0
    /\ requesting' = requesting - 1
    /\ IF p \in openPorts \cup opening
       THEN /\ ConnectFailed
            /\ UNCHANGED opening
       ELSE /\ opening' = opening \cup {p}
            /\ out' = Quiet
            /\ UNCHANGED rfidReaderStatus
    /\ UNCHANGED <<isActive, hasSerial, serialPort, reader, manualRFID, lastScanTime,
                   openPorts, reading, disc, cleanup>>

\* port.open() resolves: lines 121 to 132
OpenResolve(p) ==
    /\ p \in opening
    /\ opening' = opening \ {p}
    /\ openPorts' = openPorts \cup {p}
    /\ serialPort' = p
    /\ rfidReaderStatus' = ConnectedStatus
    /\ reader' = ReaderOf(p)
    /\ reading' = StartReading(reading, p)
    /\ out' = Toast("RFID Reader Connected")
    /\ UNCHANGED <<isActive, hasSerial, manualRFID, lastScanTime, requesting, disc,
                   cleanup>>

\* port.open() rejects
OpenReject(p) ==
    /\ p \in opening
    /\ opening' = opening \ {p}
    /\ ConnectFailed
    /\ UNCHANGED <<isActive, hasSerial, serialPort, reader, manualRFID, lastScanTime,
                   openPorts, reading, requesting, disc, cleanup>>

(***************************************************************************)
(* startReading and processRFIDData                                        *)
(***************************************************************************)
\* a processRFIDData without the length test
ChunkAcceptedAny(data) == TRUE

\* cleanData.length >= 8
ChunkAccepted(data) == Len(CleanData(data)) >= MinChunkLen

\* a processRFIDData that hands out the text in the case it arrived in
ChunkRFIDAsRead(data) == FormatRFID(CleanData(data))

\* the string processRFIDData hands to onRFIDDetected
ChunkRFID(data) == FormatRFID(ToUpperCase(CleanData(data)))

\* processRFIDData(data)
ProcessRFIDData(data) ==
    IF ChunkAccepted(data)
    THEN /\ manualRFID' = ChunkRFID(data)
         /\ lastScanTime' = TRUE
         /\ out' = Detected(ChunkRFID(data), "RFID Card Read Successfully")
    ELSE /\ out' = Quiet
         /\ UNCHANGED <<manualRFID, lastScanTime>>

\* reader.read() of the loop on port p resolves with a chunk: decode,
\* processRFIDData, read again
ChunkArrive(p, value) ==
    /\ p \in reading
    /\ ProcessRFIDData(Decode(value))
    /\ UNCHANGED <<isActive, hasSerial, rfidReaderStatus, serialPort, reader,
                   openPorts, reading, requesting, opening, disc, cleanup>>

\* reader.read() resolves with done: the peer closed the stream
ReadDone(p) ==
    /\ p \in reading
    /\ reading' = reading \ {p}
    /\ reader' = Retire(reader, {p}, "closed")
    /\ cleanup' = [cleanup EXCEPT !.reader = Retire(@, {p}, "closed")]
    /\ out' = Quiet
    /\ UNCHANGED <<isActive, hasSerial, rfidReaderStatus, serialPort, manualRFID,
                   lastScanTime, openPorts, requesting, opening, disc>>

\* reader.read() rejects: the stream is errored; the catch of startReading
ReadError(p) ==
    /\ p \in reading
    /\ reading' = reading \ {p}
    /\ reader' = Retire(reader, {p}, "errored")
    /\ cleanup' = [cleanup EXCEPT !.reader = Retire(@, {p}, "errored")]
    /\ rfidReaderStatus' = "error"
    /\ out' = Logged("Error reading from RFID device:")
    /\ UNCHANGED <<isActive, hasSerial, serialPort, manualRFID, lastScanTime,
                   openPorts, requesting, opening, disc>>

(***************************************************************************)
(* Manual entry                                                            *)
(***************************************************************************)
\* onChange of the input: setManualRFID(e.target.value.toUpperCase())
TypeManual(t) ==
    /\ isActive
    /\ Len(t) <= InputMaxLength
    /\ manualRFID' = ToUpperCase(t)
    /\ out' = Quiet
    /\ UNCHANGED <<isActive, hasSerial, rfidReaderStatus, serialPort, reader,
                   lastScanTime, openPorts, reading, requesting, opening, disc,
                   cleanup>>

\* manualRFID.trim() is truthy
ManualSubmitted(text) == Trim(text) # <<>>

\* rfidPattern.test(cleanRFID)
ManualAccepted(text) == ManualSubmitted(text) /\ RfidPatternTest(CleanRFID(text))

\* the string handleManualInput hands to onRFIDDetected
ManualRFID(text) == FormatRFID(ToUpperCase(CleanRFID(text)))

\* the Set button
HandleManualInput ==
    /\ isActive
    /\ IF ManualAccepted(manualRFID)
       THEN /\ lastScanTime' = TRUE
            /\ out' = Detected(ManualRFID(manualRFID), "RFID Set Successfully")
       ELSE /\ out' = IF ManualSubmitted(manualRFID)
                      THEN Toast("Invalid RFID Format")
                      ELSE Quiet
            /\ UNCHANGED lastScanTime
    /\ UNCHANGED <<isActive, hasSerial, rfidReaderStatus, serialPort, reader,
                   manualRFID, openPorts, reading, requesting, opening, disc,
                   cleanup>>

\* the clear button, rendered while the caller passes a currentRFID
ClearRFID ==
    /\ isActive
    /\ manualRFID' = <<>>
    /\ lastScanTime' = FALSE
    /\ out' = [Quiet EXCEPT !.ev = << <<>> >>]
    /\ UNCHANGED <<isActive, hasSerial, rfidReaderStatus, serialPort, reader,
                   openPorts, reading, requesting, opening, disc, cleanup>>

(***************************************************************************)
(* Specifications                                                          *)
(***************************************************************************)
\* the connection: activation, connect, the read loop, disconnect
Lifecycle ==
    \/ Activate
    \/ Deactivate
    \/ ConnectClick
    \/ RequestPortReject
    \/ \E p \in Ports : RequestPortResolve(p)
    \/ \E p \in Ports : OpenResolve(p)
    \/ \E p \in Ports : OpenReject(p)
    \/ DisconnectClick
    \/ \E d \in BagToSet(disc) : CancelResolve(d)
    \/ \E d \in BagToSet(disc) : CloseResolve(d)
    \/ \E d \in BagToSet(disc) : CloseReject(d)
    \/ \E p \in Ports : ReadDone(p)
    \/ \E p \in Ports : ReadError(p)

Next ==
    \/ Lifecycle
    \/ \E p \in Ports, value \in LifecycleChunks : ChunkArrive(p, value)

Spec == Init /\ [][Next]_vars

\* the way to an open connection, then what the reader delivers and what
\* the operator types
Entry ==
    \/ Activate
    \/ ConnectClick
    \/ \E p \in Ports : RequestPortResolve(p)
    \/ \E p \in Ports : OpenResolve(p)

NextText ==
    \/ Entry
    \/ \E p \in Ports, value \in Chunks : ChunkArrive(p, value)
    \/ \E t \in TypedTexts : TypeManual(t)
    \/ HandleManualInput
    \/ ClearRFID

SpecText == Init /\ [][NextText]_vars

(***************************************************************************)
(* Properties                                                              *)
(***************************************************************************)
\* the identifier of a scan event: what stands between "RFID:" and the ":"
\* before the timestamp
Identifier(rfidData) == SubSeq(rfidData, 6, Len(rfidData) - Len(Timestamp) - 1)

\* ^[0-9A-F]{8,16}$
IsCanonical(id) ==
    /\ Len(id) >= 8
    /\ Len(id) <= 16
    /\ \A i \in 1..Len(id) : IsCanonicalChar(id[i])

\* the scan events of the last step: the calls of onRFIDDetected with a
\* string that is not empty
ScanEvents == SelectSeq(out.ev, LAMBDA e : e # <<>>)

\* C1: every scan event handed to the caller, by the read loop or by manual
\* entry, carries an identifier of 8 to 16 upper-case hex digits.
C1_CanonicalIdentifier ==
    \A i \in 1..Len(ScanEvents) : IsCanonical(Identifier(ScanEvents[i]))

\* C10: the read loop emits a scan event for a text exactly when manual
\* entry of that text would be accepted, and a text that is not accepted
\* is dropped with no event, no notification and no log.
C10_SameAcceptance ==
    [][\A p \in Ports, value \in Chunks :
          ChunkArrive(p, value) =>
              /\ (ScanEvents' # <<>>) <=> ManualAccepted(Decode(value))
              /\ ScanEvents' = <<>> => out' = Quiet]_vars

\* a suspended call of disconnectRFIDReader returns in this step
Returns(d) ==
    \/ CancelResolve(d) /\ CallStage(AfterCancel(d), Closable(disc)) # "close"
    \/ CloseResolve(d)
    \/ CloseReject(d)

\* the call the Disconnect Reader button makes returns within the click
ClickReturns ==
    DisconnectClick /\ CallStage(Closure, Closable(disc)) \in {"done", "thrown"}

\* the call the effect makes on deactivation returns within the step
DeactivateReturns == Deactivate /\ EffectStage \in {"done", "thrown"}

\* C2: when the call of disconnectRFIDReader made by the Disconnect Reader
\* button returns, no read loop is left running on the connection it was
\* made on, so that no scan event of that connection follows its return.
C2_NoEventAfterDisconnect ==
    [][/\ ClickReturns => serialPort \notin reading'
       /\ \A d \in BagToSet(disc) :
             (d.kind = "button" /\ Returns(d)) => d.port \notin reading']_vars

\* nothing of a connection is left
Disconnected ==
    /\ rfidReaderStatus = "offline"
    /\ serialPort = 0
    /\ reader = NoReader
    /\ reading = {}

\* C3: when the call of disconnectRFIDReader made on deactivation returns,
\* the status is offline, no read loop runs and neither a port nor a reader
\* is stored.
C3_DeactivateOffline ==
    [][/\ DeactivateReturns => Disconnected'
       /\ \A d \in BagToSet(disc) :
             (d.kind = "deactivate" /\ Returns(d)) => Disconnected']_vars

\* the read of port p is cancelled, its stream closed, nothing is stored and
\* the status is ready
DisconnectedReady(p) ==
    /\ p \notin reading
    /\ p \notin openPorts
    /\ serialPort = 0
    /\ reader = NoReader
    /\ rfidReaderStatus = "ready"

\* C4: when the call made by the Disconnect Reader button while the status
\* was scanning or error returns, the read is cancelled, the port closed,
\* port and reader are cleared and the status is ready.
C4_DisconnectReady ==
    [][/\ (ClickReturns /\ rfidReaderStatus \in {"scanning", "error"})
             => DisconnectedReady(serialPort)'
       /\ \A d \in BagToSet(disc) :
             (d.kind = "button" /\ d.from \in {"scanning", "error"} /\ Returns(d))
                 => DisconnectedReady(d.port)']_vars

\* C5: when the port request and the open of a connectRFIDReader call have
\* both succeeded, the port and its reader are stored, the status is
\* scanning and one read loop has been started on the port, which had none.
C5_ConnectSuccess ==
    [][\A p \in Ports :
          OpenResolve(p) =>
              /\ serialPort' = p
              /\ reader' = ReaderOf(p)
              /\ rfidReaderStatus' = "scanning"
              /\ p \notin reading
              /\ p \in reading']_vars

\* C5 witness: a connect has just succeeded
C5_Connected ==
    /\ out.toast = "RFID Reader Connected"
    /\ rfidReaderStatus = "scanning"
    /\ serialPort \in reading

\* C6: activation on a host without navigator.serial sets the status error
\* and reports that the reader is not supported; on a host with it, it sets
\* the status ready.
C6_Activate ==
    [][Activate =>
          IF hasSerial
          THEN rfidReaderStatus' = "ready"
          ELSE rfidReaderStatus' = "error" /\ out'.toast = "RFID Reader Error"]_vars

\* a connectRFIDReader call fails: requestPort rejects or open() rejects
ConnectFails ==
    \/ RequestPortReject
    \/ \E p \in Ports : OpenReject(p)
    \/ \E p \in Ports : RequestPortResolve(p) /\ p \in openPorts \cup opening

\* C7: when a connectRFIDReader call fails, the status is error, the
\* connection failure is notified and neither a port nor a reader is stored.
C7_ConnectFailure ==
    [][ConnectFails =>
          /\ rfidReaderStatus' = "error"
          /\ out'.toast = "Connection Failed"
          /\ serialPort' = 0
          /\ reader' = NoReader]_vars

\* C8: at most one port is open and at most one read loop is running.
C8_SingleConnection ==
    /\ Cardinality(openPorts) <= 1
    /\ Cardinality(reading) <= 1

\* C9: a deactivation that finds nothing stored, the previous disconnect
\* having cleared it, leaves the status offline, logs no error, suspends no
\* call and changes neither port, reader, open ports nor read loops.
C9_DeactivateAgain ==
    [][(Deactivate /\ Closure = NoClosure /\ cleanup = NoClosure) =>
          /\ rfidReaderStatus' = "offline"
          /\ out'.log = ""
          /\ UNCHANGED <<serialPort, reader, openPorts, reading, disc>>]_vars

\* C9 witness: after a card was read on a connection and the connection
\* was taken down, a deactivation found nothing stored
C9_DeactivatedAgain ==
    /\ ~isActive
    /\ cleanup = NoClosure
    /\ lastScanTime
    /\ rfidReaderStatus = "offline"
    /\ out = Quiet

\* what is left of s without the characters outside [A-Fa-f0-9]
RECURSIVE HexOnly(_)
HexOnly(s) ==
    IF s = <<>> THEN <<>>
    ELSE (IF IsHexChar(Head(s)) THEN <<Head(s)>> ELSE <<>>) \o HexOnly(Tail(s))

\* the text "zz-04-5A-2E-92"
TextNoise == Decode(ChunkNoise)

\* manual entry accepts the entered text exactly when its hex digits number
\* 8 to 16, and then hands out one scan event whose identifier is those
\* digits in upper case
ManualRule ==
    HandleManualInput =>
        /\ (ScanEvents' # <<>>) <=>
               (Len(HexOnly(manualRFID)) >= 8 /\ Len(HexOnly(manualRFID)) <= 16)
        /\ ScanEvents' # <<>> =>
               /\ Len(ScanEvents') = 1
               /\ Identifier(ScanEvents'[1]) = ToUpperCase(HexOnly(manualRFID))

\* C11 (amended): manual entry accepts a text iff removing every character
\* outside [A-Fa-f0-9] leaves 8 to 16 characters, and the identifier is
\* that stripped text in upper case; "zz-04-5A-2E-92" strips to the eight
\* digits "045A2E92" and is accepted.
C11_ManualValidation ==
    [][/\ ManualRule
       /\ (HandleManualInput /\ manualRFID = ToUpperCase(TextNoise)) =>
              /\ ScanEvents' # <<>>
              /\ Identifier(ScanEvents'[1]) = <<"0", "4", "5", "A", "2", "E", "9", "2">>]_vars

\* C11 witness: "045a2e92f1" was entered and set as "045A2E92F1"
C11_Accepted ==
    /\ manualRFID = <<"0", "4", "5", "A", "2", "E", "9", "2", "F", "1">>
    /\ out.toast = "RFID Set Successfully"
    /\ Identifier(out.ev[1]) = manualRFID

\* C11 as stated: the same rule, with "zz-04-5A-2E-92" rejected.
C11_NoiseRejected ==
    [][/\ ManualRule
       /\ (HandleManualInput /\ manualRFID = ToUpperCase(TextNoise)) =>
              ScanEvents' = <<>>]_vars

\* s without the carriage returns and line feeds at its end
RECURSIVE StripLineEnd(_)
StripLineEnd(s) ==
    IF s # <<>> /\ s[Len(s)] \in {"\r", "\n"}
    THEN StripLineEnd(SubSeq(s, 1, Len(s) - 1))
    ELSE s

\* 8 to 16 hex digits
IsHexFrame(s) ==
    /\ Len(s) >= 8
    /\ Len(s) <= 16
    /\ \A i \in 1..Len(s) : IsHexChar(s[i])

\* C12: a chunk whose text without its trailing CR/LF is 8 to 16 hex digits
\* makes the read loop call onRFIDDetected exactly once, with an identifier
\* that is that text in upper case and nothing more.
C12_HexChunk ==
    [][\A p \in Ports, value \in Chunks :
          (ChunkArrive(p, value) /\ IsHexFrame(StripLineEnd(Decode(value)))) =>
              /\ Len(out'.ev) = 1
              /\ out'.ev[1] # <<>>
              /\ Identifier(out'.ev[1]) = ToUpperCase(StripLineEnd(Decode(value)))]_vars

\* C12 witness: the chunk "045a2e92\r\n" was read as "045A2E92"
C12_CardRead ==
    /\ out.toast = "RFID Card Read Successfully"
    /\ Len(out.ev) = 1
    /\ Identifier(out.ev[1]) = <<"0", "4", "5", "A", "2", "E", "9", "2">>

\* C13: a chunk whose trimmed text is shorter than 8 characters gives no scan
\* event and no notification, leaves the status, the stored port and the
\* stored reader as they were, and the read loop goes on reading.
C13_ShortChunk ==
    [][\A p \in Ports, value \in Chunks :
          (ChunkArrive(p, value) /\ Len(Trim(Decode(value))) < MinChunkLen) =>
              /\ out' = Quiet
              /\ UNCHANGED <<rfidReaderStatus, serialPort, reader, openPorts,
                             manualRFID, lastScanTime>>
              /\ p \in reading']_vars

\* C13 witness: the only connection is scanning, its loop is running, and the
\* last step was silent, as it is after the chunk "12"
C13_StillReading ==
    /\ rfidReaderStatus = "scanning"
    /\ serialPort # 0
    /\ reader = ReaderOf(serialPort)
    /\ reading = {serialPort}
    /\ openPorts = {serialPort}
    /\ requesting = 0
    /\ opening = {}
    /\ disc = EmptyBag
    /\ out = Quiet

\* C14: clearRFID removes the configured identifier without a scan event:
\* it does not call onRFIDDetected, and it leaves the status, the stored port
\* and the stored reader as they were.
C14_ClearSilent ==
    [][ClearRFID =>
          /\ out'.ev = <<>>
          /\ manualRFID' = <<>>
          /\ UNCHANGED <<rfidReaderStatus, serialPort, reader, reading>>]_vars

\* C15: every manual submission whose text fails validation, the empty and
\* the whitespace-only text included, is answered by the invalid-input
\* notification, gives no scan event, and leaves the status, the stored
\* connection and the entered text as they were.
C15_InvalidReported ==
    [][(HandleManualInput /\ ~ManualAccepted(manualRFID)) =>
          /\ out'.toast = "Invalid RFID Format"
          /\ out'.ev = <<>>
          /\ UNCHANGED <<rfidReaderStatus, serialPort, reader, manualRFID>>]_vars

\* C16: when a read of the stored connection's stream raises an error, the
\* read loop exits, the status becomes error, and the connection is torn
\* down: no serial port and no reader stay stored.
C16_ReadErrorTeardown ==
    [][\A p \in Ports :
          (ReadError(p) /\ serialPort = p) =>
              /\ p \notin reading'
              /\ rfidReaderStatus' = "error"
              /\ serialPort' = 0
              /\ reader' = NoReader]_vars

\* a step on which disconnectRFIDReader, called by the Disconnect button or
\* by the deactivation, lands in its catch: cancel() or close() raised
DisconnectRaised ==
    /\ \/ DisconnectClick
       \/ Deactivate
       \/ \E d \in BagToSet(disc) : CancelResolve(d) \/ CloseReject(d)
    /\ out'.log = DisconnectLog("thrown")

\* C17: teardown is best-effort: when reader.cancel() or serialPort.close()
\* raises during a disconnect or a deactivation, the error is logged and the
\* transition still completes: no port and no reader stay stored and the
\* status is neither scanning nor error.
C17_BestEffortTeardown ==
    [][DisconnectRaised =>
          /\ serialPort' = 0
          /\ reader' = NoReader
          /\ rfidReaderStatus' \notin {"scanning", "error"}]_vars

\* C18: cancellation ends the read loop: when Disconnect is clicked or the
\* component is deactivated while the read loop of the stored connection is
\* running, that loop has exited when the step ends, so it takes no further
\* chunk, and the step does not move the status to error.
C18_CancelEndsLoop ==
    [][((DisconnectClick \/ Deactivate) /\ serialPort \in reading) =>
          /\ serialPort \notin reading'
          /\ rfidReaderStatus' = "error" => rfidReaderStatus = "error"]_vars

\* C19: while the component is deactivated no connection comes into being:
\* when the deactivation ran while connectRFIDReader was awaiting the port
\* request or the open, the completion of the open stores no port and no
\* reader, does not set the status to scanning, and starts no read loop.
C19_NoConnectionWhileInactive ==
    [][\A p \in Ports :
          (OpenResolve(p) /\ ~isActive) =>
              /\ UNCHANGED <<serialPort, reader>>
              /\ rfidReaderStatus' # "scanning"
              /\ p \notin reading']_vars

\* C20: in every reachable state, status scanning means that a port is stored
\* and that a read loop is running on it; so after the peer closes the stream
\* (read() returns done) the status is not left at scanning without a loop.
\* States in which a disconnectRFIDReader call is still suspended are left
\* aside, which only weakens the statement.
C20_ScanningHasLoop ==
    (rfidReaderStatus = "scanning" /\ disc = EmptyBag) =>
        /\ serialPort # 0
        /\ reader # NoReader
        /\ serialPort \in reading

====
